---- MODULE Spec2Model ----
(***************************************************************************)
(* Verification model of postsack's asynchronous bridge and drill-down     *)
(* engine:                                                                 *)
(*   src/src/model/link.rs            Link<Context> and its worker thread  *)
(*   src/src/cluster_engine/engine.rs Engine (navigation stacks)           *)
(*   src/src/cluster_engine/calc.rs   the Engine's worker thread           *)
(* The two subsystems do not share state; each has its own specification   *)
(* (SpecLink, SpecEngine) over the same tuple of variables.                *)
(***************************************************************************)
EXTENDS Integers, Sequences, FiniteSets, TLC

\* ------------------------------------------------------------------------
\* Bounds of the exploration (not program constants)
\* ------------------------------------------------------------------------
\* number of Link::request calls explored in one behaviour
MaxRequests == 3
\* number of distinct Context values a caller passes to Link::request
MaxContext == 2

\* ------------------------------------------------------------------------
\* model/link.rs
\* ------------------------------------------------------------------------
VARIABLES
    request_counter,   \* Link.request_counter (AtomicUsize)
    input_channel,     \* (Query, Context) messages between input_sender and input_receiver
    output_channel,    \* Result<Response> messages between output_sender and output_receiver
    worker_pc,         \* position of the thread running inner_loop
    worker_req,        \* the (query, context) the worker took out of input_channel
    caller_pc,         \* position of the thread that owns the Link (&mut self)
    caller_req,        \* argument of the request call in progress
    link_last,         \* return value of the caller's last completed Link call
    store_failed,      \* history: some query failed in the store or in conversion
    n_calls,           \* history: Link::request calls started
    n_sent,            \* history: messages put into input_channel
    n_received,        \* history: receive calls that returned Ok(Some(response))
    sent_log,          \* history: the (query, context) pairs sent, in order
    recv_log           \* history: the (query, context) of the responses received, in order

link_vars == <<request_counter, input_channel, output_channel, worker_pc, worker_req,
               caller_pc, caller_req, link_last, store_failed, n_calls, n_sent, n_received,
               sent_log, recv_log>>

\* Stand-in for usize::MAX: fetch_sub on 0 wraps to the largest value of the
\* type.  TLC integers are 32 bit wide, so the largest of those is used.
UsizeMax == 2147483647

NoRequest == [query |-> "none", context |-> 0]

\* enum Query { Grouped, Normal, Other } as matched by inner_loop
QueryKinds == {"Grouped", "Normal", "Other"}

Contexts == 1..MaxContext

\* what database.query and the row conversion can produce for one query
StoreOutcomes == {"rows", "store_error", "bad_row"}

\* the (query, context) a Response carries back (its first two fields)
RequestOf(response) == [query |-> response.query, context |-> response.context]

\* AtomicUsize::fetch_add(1): wrapping addition
fetch_add(c) == IF c = UsizeMax THEN 0 ELSE c + 1

\* AtomicUsize::fetch_sub(1): wrapping subtraction
fetch_sub(c) == IF c = 0 THEN UsizeMax ELSE c - 1

\* Link::is_processing
is_processing == request_counter > 0

\* the receiving end of input_channel and the sending end of output_channel
\* live in the worker thread and are dropped when inner_loop returns or unwinds
worker_gone == worker_pc = "exited"

\* Link::request, line 53: the counter is incremented before the send
RequestFetchAdd(q, c) ==
    /\ caller_pc = "idle"
    /\ n_calls < MaxRequests
    /\ request_counter' = fetch_add(request_counter)
    /\ caller_pc' = "request_send"
    /\ caller_req' = [query |-> q, context |-> c]
    /\ n_calls' = n_calls + 1
    /\ UNCHANGED <<input_channel, output_channel, worker_pc, worker_req, link_last,
                   store_failed, n_sent, n_received, sent_log, recv_log>>

\* Link::request, lines 54-55: input_sender.send(..)?; Ok(())
RequestSend ==
    /\ caller_pc = "request_send"
    /\ IF worker_gone
         THEN /\ link_last' = "request_err"
              /\ UNCHANGED <<input_channel, n_sent, sent_log>>
         ELSE /\ input_channel' = Append(input_channel, caller_req)
              /\ n_sent' = n_sent + 1
              /\ sent_log' = Append(sent_log, caller_req)
              /\ link_last' = "request_ok"
    /\ caller_pc' = "idle"
    /\ caller_req' = NoRequest
    /\ UNCHANGED <<request_counter, output_channel, worker_pc, worker_req,
                   store_failed, n_calls, n_received, recv_log>>

\* ReceiveTryRecv with the counter decremented before the outcome of try_recv is known
ReceiveTryRecvSpeculative ==
    /\ caller_pc = "idle"
    /\ request_counter' = IF request_counter > 0 THEN request_counter - 1 ELSE 0
    /\ IF output_channel = <<>>
         THEN /\ link_last' = "receive_none"
              /\ UNCHANGED <<output_channel, n_received, recv_log>>
         ELSE /\ output_channel' = Tail(output_channel)
              /\ IF Head(output_channel).ok
                   THEN /\ link_last' = "receive_some"
                        /\ n_received' = n_received + 1
                        /\ recv_log' = Append(recv_log, RequestOf(Head(output_channel)))
                   ELSE /\ link_last' = "receive_err"
                        /\ UNCHANGED <<n_received, recv_log>>
    /\ UNCHANGED <<caller_pc, input_channel, worker_pc, worker_req, caller_req,
                   store_failed, n_calls, n_sent, sent_log>>

\* Link::receive, line 59: output_receiver.try_recv() and the arms that return at once
ReceiveTryRecv ==
    /\ caller_pc = "idle"
    /\ IF output_channel = <<>>
         THEN \* Err(_) => Ok(None), also when the channel is disconnected
              /\ link_last' = "receive_none"
              /\ UNCHANGED <<caller_pc, output_channel, recv_log>>
         ELSE /\ output_channel' = Tail(output_channel)
              /\ IF Head(output_channel).ok
                   THEN /\ caller_pc' = "receive_sub"
                        /\ recv_log' = Append(recv_log, RequestOf(Head(output_channel)))
                        /\ UNCHANGED link_last
                   ELSE \* Ok(Err(e)) => Err(e)
                        /\ link_last' = "receive_err"
                        /\ UNCHANGED <<caller_pc, recv_log>>
    /\ UNCHANGED <<request_counter, input_channel, worker_pc, worker_req, caller_req,
                   store_failed, n_calls, n_sent, n_received, sent_log>>

\* Link::receive, lines 61-65: the counter is decremented after the receive
ReceiveFetchSub ==
    /\ caller_pc = "receive_sub"
    /\ request_counter' = fetch_sub(request_counter)
    /\ n_received' = n_received + 1
    /\ link_last' = "receive_some"
    /\ caller_pc' = "idle"
    /\ UNCHANGED <<input_channel, output_channel, worker_pc, worker_req, caller_req,
                   store_failed, n_calls, n_sent, sent_log, recv_log>>

\* WorkerRecv taking the newest message of the channel in place of the oldest
WorkerRecvNewest ==
    /\ worker_pc = "recv"
    /\ input_channel # <<>>
    /\ worker_req' = input_channel[Len(input_channel)]
    /\ input_channel' = SubSeq(input_channel, 1, Len(input_channel) - 1)
    /\ worker_pc' = "exec"
    /\ UNCHANGED <<request_counter, output_channel, caller_pc, caller_req, link_last,
                   store_failed, n_calls, n_sent, n_received, sent_log, recv_log>>

\* inner_loop, line 101: input_receiver.recv() blocks until a message is there
WorkerRecv ==
    /\ worker_pc = "recv"
    /\ input_channel # <<>>
    /\ worker_req' = Head(input_channel)
    /\ input_channel' = Tail(input_channel)
    /\ worker_pc' = "exec"
    /\ UNCHANGED <<request_counter, output_channel, caller_pc, caller_req, link_last,
                   store_failed, n_calls, n_sent, n_received, sent_log, recv_log>>

\* inner_loop, lines 102-134: query, conversion and output_sender.send(Ok(response)).
\* A store error leaves through `?` on line 102, a row that does not convert
\* through `?` on line 105 or a panic on lines 126, 128, 155: the thread ends.
WorkerExec(outcome) ==
    /\ worker_pc = "exec"
    /\ IF outcome = "rows"
         THEN /\ output_channel' = Append(output_channel,
                     [ok |-> TRUE, kind |-> worker_req.query,
                      query |-> worker_req.query, context |-> worker_req.context])
              /\ worker_pc' = "recv"
              /\ UNCHANGED store_failed
         ELSE /\ worker_pc' = "exited"
              /\ store_failed' = TRUE
              /\ UNCHANGED output_channel
    /\ worker_req' = NoRequest
    /\ UNCHANGED <<request_counter, input_channel, caller_pc, caller_req, link_last,
                   n_calls, n_sent, n_received, sent_log, recv_log>>

\* link::run, lines 82-93
InitLink ==
    /\ request_counter = 0
    /\ input_channel = <<>>
    /\ output_channel = <<>>
    /\ worker_pc = "recv"
    /\ worker_req = NoRequest
    /\ caller_pc = "idle"
    /\ caller_req = NoRequest
    /\ link_last = "none"
    /\ store_failed = FALSE
    /\ n_calls = 0
    /\ n_sent = 0
    /\ n_received = 0
    /\ sent_log = <<>>
    /\ recv_log = <<>>


\* ------------------------------------------------------------------------
\* cluster_engine/engine.rs and cluster_engine/calc.rs
\* ------------------------------------------------------------------------
\* Bounds of the exploration (not program constants)
\* number of requests one Engine sends to its worker in one behaviour
MaxEngineRequests == 4

VARIABLES
    search_stack,      \* Engine.search_stack: Vec<ValueField>
    group_by_stack,    \* Engine.group_by_stack: Vec<GroupByField>
    partitions,        \* Engine.partitions: Vec<Partitions>
    action,            \* Engine.action: Option<Action>
    eng_input,         \* messages between link.input_sender and the worker
    eng_output,        \* messages between the worker and link.output_receiver
    eng_output_action, \* the Action process() receives beside each message of eng_output
    eng_worker_pc,     \* position of the thread running calc::inner_loop
    eng_worker_req,    \* the request the worker took out of eng_input
    panicked,          \* the thread that owns the Engine has panicked
    last_op,           \* history: the last Engine call and how it ended
    outstanding,       \* history: requests sent whose response process has not applied
    n_requests,        \* history: requests sent to the worker
    rt                 \* history: the select_partition / process / back round trip

engine_vars == <<search_stack, group_by_stack, partitions, action, eng_input, eng_output,
                 eng_output_action, eng_worker_pc, eng_worker_req, panicked, last_op, outstanding, n_requests, rt>>

vars == <<link_vars, engine_vars>>

\* DEFAULT_GROUP_BY_FIELDS, the fixed enumeration order of GroupByField
DEFAULT_GROUP_BY_FIELDS ==
    <<"SenderDomain", "SenderLocalPart", "SenderName", "Year", "Month", "Day",
      "ToGroup", "ToName", "ToAddress", "IsReply", "IsSend">>

\* default_group_by_stack(index), index counted from 0; "panic" is the `_ => panic!()` arm
default_group_by_stack(index) ==
    CASE index = 0 -> "Year"
      [] index = 1 -> "SenderDomain"
      [] index = 2 -> "SenderLocalPart"
      [] index = 3 -> "Month"
      [] index = 4 -> "Day"
      [] OTHER -> "panic"

\* Option<Partition>::None
NoPartition == [field |-> [kind |-> "none", value |-> 0]]

\* a Partition whose field is the ValueField (f, v); count and layout are not navigation state
Partition(f, v) == [field |-> [kind |-> f, value |-> v]]

\* Partitions::new(items): the items of one level, nothing selected
NewPartitions(items) == [items |-> items, selected |-> NoPartition]

\* no select_partition / back round trip is being followed
NoRoundTrip == [phase |-> "none", gb |-> 0, parts |-> 0, search |-> 0]

NoEngineRequest == [filters |-> <<>>, fields |-> <<>>, action |-> "None"]

\* Vec::contains
Contains(seq, x) == \E i \in 1..Len(seq) : seq[i] = x

\* Vec::remove(len - 1) on a non-empty Vec
RemoveLast(seq) == SubSeq(seq, 1, Len(seq) - 1)

\* SelectedFields with map in place of filter_map: one entry per level
SelectedFieldsOfEveryLevel(ps) == [i \in 1..Len(ps) |-> ps[i].selected.field]

\* partitions.iter().filter_map(|e| e.selected.as_ref()).map(|p| p.field.clone()).collect()
RECURSIVE SelectedFields(_)
SelectedFields(ps) ==
    IF ps = <<>> THEN <<>>
    ELSE IF Head(ps).selected = NoPartition
           THEN SelectedFields(Tail(ps))
           ELSE <<Head(ps).selected.field>> \o SelectedFields(Tail(ps))

\* Engine::make_request on the stack `gb`: the filters are always empty
\* ("FIXME: We have no custom fitlers yet"), search_stack is not read
make_request(gb) == [filters |-> <<>>, fields |-> gb]

\* available_group_by_fields without the arm that keeps the current field
available_without_current(field) ==
    SelectSeq(DEFAULT_GROUP_BY_FIELDS, LAMBDA f : ~Contains(group_by_stack, f))

\* Engine::available_group_by_fields for a Grouping whose field is `field`
available_group_by_fields(field) ==
    SelectSeq(DEFAULT_GROUP_BY_FIELDS,
              LAMBDA f : IF f = field THEN TRUE
                         ELSE IF Contains(group_by_stack, f) THEN FALSE ELSE TRUE)

\* Engine::is_busy
is_busy == partitions = <<>> \/ action # "None"

\* the worker's channel ends are dropped when calc::inner_loop returns
eng_worker_gone == eng_worker_pc \in {"exited", "exited_no_group_by"}

\* the exploration stops sending after MaxEngineRequests requests
MaySend == ~panicked /\ n_requests < MaxEngineRequests

\* the fields a caller passes to update_grouping
UpdateFields == {"SenderDomain"}

\* what the store does with one grouped query: the number of rows it returns,
\* or -1 when the query or the conversion of a row fails
StoreResults == {-1, 0, 1}

\* update with self.action = Some(Wait) assigned before the send of self.action
update_tags_wait(a, gb) ==
    IF eng_worker_gone
      THEN /\ action' = "Wait"
           /\ UNCHANGED <<eng_input, outstanding, n_requests>>
      ELSE /\ eng_input' = Append(eng_input,
                  [filters |-> make_request(gb).filters, fields |-> make_request(gb).fields,
                   action |-> "Wait"])
           /\ action' = "Wait"
           /\ outstanding' = outstanding + 1
           /\ n_requests' = n_requests + 1

\* Engine::update with self.action = Some(a) and the stack `gb`:
\* send (make_request(), action), then self.action = Some(Wait);
\* a failed send leaves through `?` before the assignment.
update(a, gb) ==
    IF eng_worker_gone
      THEN /\ action' = a
           /\ UNCHANGED <<eng_input, outstanding, n_requests>>
      ELSE /\ eng_input' = Append(eng_input,
                  [filters |-> make_request(gb).filters, fields |-> make_request(gb).fields,
                   action |-> a])
           /\ action' = "Wait"
           /\ outstanding' = outstanding + 1
           /\ n_requests' = n_requests + 1

\* Engine::start
Start ==
    /\ MaySend
    /\ update("Select", group_by_stack)
    /\ last_op' = "start"
    /\ rt' = NoRoundTrip
    /\ UNCHANGED <<search_stack, group_by_stack, partitions, eng_output, eng_output_action,
                   eng_worker_pc, eng_worker_req, panicked>>

\* Engine::update_grouping; grouping.index counts from 0 and may be stale
UpdateGrouping(index, field) ==
    /\ MaySend
    /\ group_by_stack' = IF index < Len(group_by_stack)
                           THEN [group_by_stack EXCEPT ![index + 1] = field]
                           ELSE group_by_stack
    /\ update("Recalculate", group_by_stack')
    /\ last_op' = "update_grouping"
    /\ rt' = NoRoundTrip
    /\ UNCHANGED <<search_stack, partitions, eng_output, eng_output_action, eng_worker_pc,
                   eng_worker_req, panicked>>

\* select_partition without the early return on an empty partitions stack
SelectPartitionNoEarlyReturn(p) ==
    /\ MaySend
    /\ partitions' = IF partitions = <<>> THEN partitions
                     ELSE [partitions EXCEPT ![Len(partitions)].selected = p]
    /\ search_stack' = SelectedFields(partitions')
    /\ IF default_group_by_stack(Len(group_by_stack)) = "panic"
         THEN /\ panicked' = TRUE
              /\ last_op' = "select_panic"
              /\ rt' = NoRoundTrip
              /\ UNCHANGED <<group_by_stack, action, eng_input, outstanding, n_requests>>
         ELSE /\ group_by_stack' = Append(group_by_stack,
                                      default_group_by_stack(Len(group_by_stack)))
              /\ update("Select", group_by_stack')
              /\ last_op' = "select"
              /\ rt' = NoRoundTrip
              /\ UNCHANGED panicked
    /\ UNCHANGED <<eng_output, eng_output_action, eng_worker_pc, eng_worker_req>>

\* Engine::select_partition
SelectPartition(p) ==
    /\ MaySend
    /\ IF partitions = <<>>
         THEN \* None => return Ok(())
              /\ last_op' = "select_noop"
              /\ UNCHANGED <<search_stack, group_by_stack, partitions, action, eng_input,
                             outstanding, n_requests, panicked, rt>>
         ELSE /\ partitions' = [partitions EXCEPT ![Len(partitions)].selected = p]
              /\ search_stack' = SelectedFields(partitions')
              /\ IF default_group_by_stack(Len(group_by_stack)) = "panic"
                   THEN /\ panicked' = TRUE
                        /\ last_op' = "select_panic"
                        /\ rt' = NoRoundTrip
                        /\ UNCHANGED <<group_by_stack, action, eng_input, outstanding, n_requests>>
                   ELSE /\ group_by_stack' = Append(group_by_stack,
                                                default_group_by_stack(Len(group_by_stack)))
                        /\ update("Select", group_by_stack')
                        /\ last_op' = "select"
                        /\ rt' = [phase |-> "selected",
                                  gb |-> Len(group_by_stack),
                                  parts |-> Len(partitions),
                                  search |-> Len(search_stack)]
                        /\ UNCHANGED panicked
    /\ UNCHANGED <<eng_output, eng_output_action, eng_worker_pc, eng_worker_req>>

\* the guard of back without its search_stack.is_empty() test
BackRejectedTwoStacks ==
    \/ group_by_stack = <<>>
    \/ partitions = <<>>

\* Engine::back, lines 135-146: the guard
BackRejected ==
    \/ group_by_stack = <<>>
    \/ partitions = <<>>
    \/ search_stack = <<>>

\* Engine::back
Back ==
    /\ ~panicked
    /\ IF BackRejected
         THEN /\ last_op' = "back_rejected"
              /\ UNCHANGED <<search_stack, group_by_stack, partitions, rt>>
         ELSE /\ group_by_stack' = RemoveLast(group_by_stack)
              /\ search_stack' = RemoveLast(search_stack)
              /\ partitions' =
                   LET popped == RemoveLast(partitions)
                   IN IF popped = <<>> THEN popped
                      ELSE [popped EXCEPT ![Len(popped)].selected = NoPartition]
              /\ last_op' = "back"
              /\ rt' = IF rt.phase = "selected" THEN [rt EXCEPT !.phase = "back_direct"]
                        ELSE IF rt.phase = "applied" THEN [rt EXCEPT !.phase = "back_applied"]
                        ELSE NoRoundTrip
    /\ UNCHANGED <<action, eng_input, eng_output, eng_output_action, eng_worker_pc,
                   eng_worker_req, panicked, outstanding, n_requests>>

\* Engine::process
Process ==
    /\ ~panicked
    /\ IF eng_output = <<>>
         THEN \* Err(_) => ()
              /\ last_op' = "process_none"
              /\ UNCHANGED <<partitions, action, eng_output, eng_output_action, panicked,
                             outstanding, n_requests, rt>>
         ELSE LET msg == Head(eng_output)
                  msg_action == Head(eng_output_action)
              IN
              /\ eng_output' = Tail(eng_output)
              /\ eng_output_action' = Tail(eng_output_action)
              /\ IF ~msg.ok
                   THEN \* Ok(Err(e)) => return Err(e)
                        /\ last_op' = "process_err"
                        /\ UNCHANGED <<partitions, action, panicked, outstanding, n_requests, rt>>
                   ELSE IF msg_action = "Select"
                   THEN /\ partitions' = Append(partitions, msg.partitions)
                        /\ action' = "None"
                        /\ outstanding' = outstanding - 1
                        /\ last_op' = "process_select"
                        /\ rt' = IF rt.phase = "selected" /\ outstanding = 1
                                   THEN [rt EXCEPT !.phase = "applied"]
                                   ELSE NoRoundTrip
                        /\ UNCHANGED panicked
                   ELSE IF msg_action = "Recalculate" /\ partitions # <<>>
                   THEN /\ partitions' = [partitions EXCEPT ![Len(partitions)] = msg.partitions]
                        /\ action' = "None"
                        /\ outstanding' = outstanding - 1
                        /\ last_op' = "process_recalculate"
                        /\ rt' = NoRoundTrip
                        /\ UNCHANGED panicked
                   ELSE \* self.partitions[len - 1] on an empty Vec, or the Wait arm
                        /\ panicked' = TRUE
                        /\ last_op' = IF msg_action = "Recalculate" THEN "process_panic_index"
                                      ELSE "process_panic_wait"
                        /\ rt' = NoRoundTrip
                        /\ UNCHANGED <<partitions, action, outstanding>>
    /\ UNCHANGED <<search_stack, group_by_stack, eng_input, eng_worker_pc, eng_worker_req,
                   n_requests>>

\* calc::inner_loop, line 57: input_receiver.recv()
EngWorkerRecv ==
    /\ eng_worker_pc = "recv"
    /\ eng_input # <<>>
    /\ eng_worker_req' = Head(eng_input)
    /\ eng_input' = Tail(eng_input)
    /\ eng_worker_pc' = "exec"
    /\ UNCHANGED <<search_stack, group_by_stack, partitions, action, eng_output,
                   eng_output_action, panicked, last_op, outstanding, n_requests, rt>>

\* the Action that Engine::process receives beside the response to `request`
\* (engine.rs:172): the one Engine::update sent with that request (engine.rs:163).
\* calc.rs as it stands has no Action and sends the Partitions alone.
ResponseAction(request) == request.action

\* calc::inner_loop, lines 58-70: group by the last field, query, convert and send
\* Ok(Partitions::new(partitions)).  `rows` is the number of rows the store
\* returns, or -1 when the query or the conversion of a row fails; each `?` ends
\* the thread.  The message holds the Partitions and nothing else; the Action of
\* the request is kept beside it in eng_output_action (ResponseAction).
EngWorkerExec(rows) ==
    /\ eng_worker_pc = "exec"
    /\ IF eng_worker_req.fields = <<>>
         THEN \* ok_or(eyre!("No Group By Available"))?
              /\ eng_worker_pc' = "exited_no_group_by"
              /\ UNCHANGED <<eng_output, eng_output_action>>
         ELSE IF rows < 0
         THEN /\ eng_worker_pc' = "exited"
              /\ UNCHANGED <<eng_output, eng_output_action>>
         ELSE LET current_field == eng_worker_req.fields[Len(eng_worker_req.fields)]
                  items == [i \in 1..rows |-> Partition(current_field, i)]
              IN /\ eng_output' = Append(eng_output,
                        [ok |-> TRUE, partitions |-> NewPartitions(items)])
                 /\ eng_output_action' =
                        Append(eng_output_action, ResponseAction(eng_worker_req))
                 /\ eng_worker_pc' = "recv"
    /\ eng_worker_req' = NoEngineRequest
    /\ UNCHANGED <<search_stack, group_by_stack, partitions, action, eng_input, panicked,
                   last_op, outstanding, n_requests, rt>>

\* Engine::new, lines 58-68, and calc::run
InitEngine ==
    /\ search_stack = <<>>
    /\ group_by_stack = <<default_group_by_stack(0)>>
    /\ partitions = <<>>
    /\ action = "None"
    /\ eng_input = <<>>
    /\ eng_output = <<>>
    /\ eng_output_action = <<>>
    /\ eng_worker_pc = "recv"
    /\ eng_worker_req = NoEngineRequest
    /\ panicked = FALSE
    /\ last_op = "none"
    /\ outstanding = 0
    /\ n_requests = 0
    /\ rt = NoRoundTrip

\* the partitions Rectangles::ui passes to select_partition: the items of the
\* deepest level (Engine::items_with_size); with no level items_with_size is
\* None and ui returns without offering anything
Clickable ==
    IF partitions = <<>> THEN {}
    ELSE {partitions[Len(partitions)].items[i] :
             i \in 1..Len(partitions[Len(partitions)].items)}

\* the partition a caller of the public Engine::select_partition other than
\* Rectangles::ui passes while items_with_size is None: there is no item to
\* take, so it passes one of its own making
UnlistedPartitions ==
    IF partitions = <<>> THEN {Partition("Year", 1)} ELSE {}

Init == InitLink /\ InitEngine

NextLink ==
    \/ \E q \in QueryKinds, c \in Contexts : RequestFetchAdd(q, c) /\ UNCHANGED engine_vars
    \/ RequestSend /\ UNCHANGED engine_vars
    \/ ReceiveTryRecv /\ UNCHANGED engine_vars
    \/ ReceiveFetchSub /\ UNCHANGED engine_vars
    \/ WorkerRecv /\ UNCHANGED engine_vars
    \/ \E o \in StoreOutcomes : WorkerExec(o) /\ UNCHANGED engine_vars

NextEngine ==
    \/ Start /\ UNCHANGED link_vars
    \/ \E i \in 0..Len(group_by_stack), f \in UpdateFields :
          UpdateGrouping(i, f) /\ UNCHANGED link_vars
    \/ \E p \in Clickable : SelectPartition(p) /\ UNCHANGED link_vars
    \/ \E p \in UnlistedPartitions : SelectPartition(p) /\ UNCHANGED link_vars
    \/ Back /\ UNCHANGED link_vars
    \/ Process /\ UNCHANGED link_vars
    \/ EngWorkerRecv /\ UNCHANGED link_vars
    \/ \E n \in StoreResults : EngWorkerExec(n) /\ UNCHANGED link_vars

SpecLink == Init /\ [][NextLink]_vars

\* the thread spawned by link::run keeps running inner_loop
WorkerStep ==
    (WorkerRecv \/ \E o \in StoreOutcomes : WorkerExec(o)) /\ UNCHANGED engine_vars

\* the caller keeps polling Link::receive
ReceivePoll == (ReceiveTryRecv \/ ReceiveFetchSub) /\ UNCHANGED engine_vars

\* a Link::request call that has started runs to its end
RequestCompletes == RequestSend /\ UNCHANGED engine_vars

\* SpecLink with the worker scheduled fairly and receive() polled
SpecLinkFair ==
    /\ Init /\ [][NextLink]_vars
    /\ WF_vars(WorkerStep) /\ WF_vars(ReceivePoll) /\ WF_vars(RequestCompletes)

SpecEngine == Init /\ [][NextEngine]_vars

\* the thread spawned by calc::run keeps running inner_loop
EngWorkerStep ==
    (EngWorkerRecv \/ \E n \in StoreResults : EngWorkerExec(n)) /\ UNCHANGED link_vars

\* the UI calls Engine::process once per frame
ProcessPoll == Process /\ UNCHANGED link_vars

\* SpecEngine with the worker thread scheduled fairly and process() polled
SpecEngineFair ==
    Init /\ [][NextEngine]_vars /\ WF_vars(EngWorkerStep) /\ WF_vars(ProcessPoll)


\* ------------------------------------------------------------------------
\* Properties
\* ------------------------------------------------------------------------
\* requests waiting in the input channel, being executed, or waiting as responses
InPipeline ==
    Len(input_channel) + (IF worker_pc = "exec" THEN 1 ELSE 0) + Len(output_channel)

\* number of partitions levels that hold a selection
NumSelected == Cardinality({i \in 1..Len(partitions) : partitions[i].selected # NoPartition})

\* position of a field in the fixed enumeration
FieldPos(f) == CHOOSE i \in 1..Len(DEFAULT_GROUP_BY_FIELDS) : DEFAULT_GROUP_BY_FIELDS[i] = f

SeqRange(seq) == {seq[i] : i \in 1..Len(seq)}

\* the three stacks as Engine::new leaves them
StacksInitial ==
    /\ search_stack = <<>>
    /\ partitions = <<>>
    /\ group_by_stack = <<default_group_by_stack(0)>>

\* a step in which Engine::back ran
BackStep ==
    /\ last_op' \in {"back", "back_rejected"}
    /\ \/ last_op' # last_op
       \/ <<search_stack, group_by_stack, partitions>>' # <<search_stack, group_by_stack, partitions>>

\* C1: between Link calls the in-flight counter is >= 0 and equals the number of
\* requests put into the input channel minus the number of receive calls that
\* returned a response.
C1_CounterIsSentMinusReceived ==
    caller_pc = "idle" =>
        /\ request_counter >= 0
        /\ request_counter = n_sent - n_received

\* C2: in every interleaving of caller and worker, is_processing() is true
\* whenever a request waits in the input channel, is being executed by the
\* worker, or waits as a response in the output channel.
C2_BusyWhileInPipeline == InPipeline > 0 => is_processing

\* C2 witness: a receive has taken a response out of the channel and has not yet
\* decremented the counter, while another request is still in the pipeline.
C2_Witness == caller_pc = "receive_sub" /\ InPipeline > 0 /\ n_calls >= 2

\* C3: a query that fails in the store (or a row that fails conversion) does not
\* end the worker thread.
C3_WorkerSurvivesStoreError == store_failed => ~worker_gone

\* C4: at most one request sent by the Engine is outstanding (sent, response not
\* yet applied by process) at any time.
C4_AtMostOneOutstanding == outstanding <= 1

\* C5: group_by_stack has exactly one more entry than search_stack in every
\* reachable Engine state.
C5_GroupByOneMoreThanSearch ==
    ~panicked => Len(group_by_stack) = Len(search_stack) + 1

\* C6 as claimed: the stacks are in their initial state, or a selection's request
\* is pending and len(search_stack) = len(partitions) - 1, or no selection is
\* pending and len(search_stack) = len(partitions).
C6_Original ==
    ~panicked =>
        \/ StacksInitial
        \/ rt.phase = "selected" /\ Len(search_stack) = Len(partitions) - 1
        \/ rt.phase # "selected" /\ Len(search_stack) = Len(partitions)

\* number of the levels 1..i that hold a selection
SelectedUpTo(i) == Cardinality({j \in 1..i : partitions[j].selected # NoPartition})

\* C6 as amended: in every state len(search_stack) <= len(partitions).  In every
\* state whose deepest level holds a selection (select_partition has marked it
\* and neither back nor a response has touched the level since), search_stack
\* is, in order, the selected value of each level that holds one, so its length
\* is len(partitions) when every level holds one.  In the state a process call
\* leaves after pushing a Select response, len(search_stack) <= len(partitions)
\* - 1, and when every level but the new deepest one holds a selection
\* search_stack is those selected values and its length is len(partitions) - 1.
C6_SearchVersusPartitions ==
    /\ Len(search_stack) <= Len(partitions)
    /\ (partitions # <<>> /\ partitions[Len(partitions)].selected # NoPartition) =>
          /\ Len(search_stack) = NumSelected
          /\ \A i \in 1..Len(partitions) :
                partitions[i].selected # NoPartition =>
                    search_stack[SelectedUpTo(i)] = partitions[i].selected.field
    /\ last_op = "process_select" =>
          /\ Len(search_stack) <= Len(partitions) - 1
          /\ (\A i \in 1..(Len(partitions) - 1) : partitions[i].selected # NoPartition) =>
                /\ Len(search_stack) = Len(partitions) - 1
                /\ \A i \in 1..(Len(partitions) - 1) :
                      search_stack[i] = partitions[i].selected.field

\* C6 witness: process has pushed the response of a second-level selection; the
\* two upper levels hold their selections and search_stack is one shorter than
\* partitions.
C6_Witness ==
    /\ last_op = "process_select"
    /\ Len(partitions) = 3
    /\ Len(search_stack) = 2
    /\ \A i \in 1..2 : partitions[i].selected # NoPartition

\* C7: immediately after a select_partition that finds partitions non-empty,
\* len(group_by_stack) = len(partitions) + 1; after the process call that applies
\* that selection's response, len(group_by_stack) = len(partitions).
C7_GroupByVersusPartitions ==
    ~panicked =>
        /\ last_op = "select" => Len(group_by_stack) = Len(partitions) + 1
        /\ (last_op = "process_select" /\ rt.phase = "applied") =>
              Len(group_by_stack) = Len(partitions)

\* C8: select_partition followed by back(), with or without the process call that
\* applies the selection's response in between, restores the lengths of the three
\* stacks and leaves the deepest partitions entry without a selection.
C8_RoundTrip ==
    rt.phase \in {"back_direct", "back_applied"} =>
        /\ Len(group_by_stack) = rt.gb
        /\ Len(partitions) = rt.parts
        /\ Len(search_stack) = rt.search
        /\ partitions # <<>>
        /\ partitions[Len(partitions)].selected = NoPartition

\* C9: back() called while group_by_stack, partitions or search_stack is empty
\* changes none of the stacks, no selection, not the pending action, sends
\* nothing and does not panic.
C9_BackOnEmptyChangesNothing ==
    [][ (BackStep /\ (group_by_stack = <<>> \/ partitions = <<>> \/ search_stack = <<>>))
          => UNCHANGED <<search_stack, group_by_stack, partitions, action, eng_input,
                         eng_output, eng_output_action, panicked, outstanding>> ]_vars

\* C9 witness: back() was rejected on an Engine that holds a partitions level
\* (and so had something to pop) but an empty search_stack.
C9_Witness ==
    /\ last_op = "back_rejected"
    /\ partitions # <<>>
    /\ search_stack = <<>>

\* C10 as claimed: for every depth d, available_group_by_fields returns, in
\* enumeration order, exactly the fields not used at any depth other than d.
C10_Original ==
    ~panicked =>
        \A d \in 1..Len(group_by_stack) :
            available_group_by_fields(group_by_stack[d]) =
                SelectSeq(DEFAULT_GROUP_BY_FIELDS,
                          LAMBDA f : \A e \in 1..Len(group_by_stack) :
                                        e # d => group_by_stack[e] # f)

\* C10 as amended: for every depth d the result is in enumeration order without
\* repetition, holds exactly the fields that equal group_by_stack[d] or are used
\* at no depth, and so always holds group_by_stack[d]; a field used at a
\* different depth is in it only when group_by_stack[d] is that same field.
C10_AvailableFields ==
    ~panicked =>
        \A d \in 1..Len(group_by_stack) :
            LET r == available_group_by_fields(group_by_stack[d]) IN
            /\ \A i, j \in 1..Len(r) : i < j => FieldPos(r[i]) < FieldPos(r[j])
            /\ group_by_stack[d] \in SeqRange(r)
            /\ \A f \in SeqRange(DEFAULT_GROUP_BY_FIELDS) :
                  f \in SeqRange(r) <=>
                      (f = group_by_stack[d] \/ f \notin SeqRange(group_by_stack))
            /\ \A e \in 1..Len(group_by_stack) :
                  (e # d /\ group_by_stack[e] \in SeqRange(r)) =>
                      group_by_stack[e] = group_by_stack[d]

\* C10 witness: the stack holds the same field at two depths, and the fields
\* offered for the first of them include it.
C10_Witness ==
    /\ ~panicked
    /\ \E d, e \in 1..Len(group_by_stack) :
          /\ d # e
          /\ group_by_stack[d] = group_by_stack[e]
          /\ group_by_stack[e] \in SeqRange(available_group_by_fields(group_by_stack[d]))


\* the filter that fixes the field of a selected value to that value
FilterOf(value_field) == [field |-> value_field.kind, value |-> value_field.value]

\* C11: a request sent by select_partition groups by the last field of
\* group_by_stack and carries, for each value of search_stack, a filter fixing
\* that value's field to it.
C11_RequestCarriesSelections ==
    (last_op = "select" /\ action = "Wait" /\ eng_input # <<>>) =>
        LET request == eng_input[Len(eng_input)] IN
        /\ request.fields[Len(request.fields)] = group_by_stack[Len(group_by_stack)]
        /\ Len(request.filters) = Len(search_stack)
        /\ \A i \in 1..Len(search_stack) : request.filters[i] = FilterOf(search_stack[i])


\* a step in which Engine::process ran
ProcessStep ==
    /\ last_op' \in {"process_none", "process_select", "process_recalculate",
                     "process_err", "process_panic_index", "process_panic_wait"}
    /\ \/ last_op' # last_op
       \/ Len(eng_output') < Len(eng_output)

\* a step in which Engine::select_partition ran
SelectStep ==
    /\ last_op' \in {"select", "select_noop", "select_panic"}
    /\ \/ last_op' # last_op
       \/ <<search_stack, group_by_stack, partitions>>' # <<search_stack, group_by_stack, partitions>>
       \/ n_requests' # n_requests

\* the messages that are with the worker or in one of its channels
TagsInFlight ==
    {eng_input[i].action : i \in 1..Len(eng_input)}
    \cup {eng_output_action[i] : i \in 1..Len(eng_output_action)}
    \cup (IF eng_worker_pc = "exec" THEN {eng_worker_req.action} ELSE {})

\* C12: a process call takes at most one response; with none it changes nothing;
\* a Select response pushes one partitions entry; a Recalculate response replaces
\* the deepest entry and keeps the length; an error response leaves the stacks
\* unchanged; after any drained response the pending action is cleared.
C12_ProcessAppliesOneResponse ==
    [][ ProcessStep =>
          /\ Len(eng_output) - Len(eng_output') <= 1
          /\ UNCHANGED <<search_stack, group_by_stack>>
          /\ eng_output = <<>> => UNCHANGED <<partitions, action, panicked>>
          /\ eng_output # <<>> =>
                LET msg == Head(eng_output)
                    msg_action == Head(eng_output_action)
                IN
                /\ eng_output' = Tail(eng_output)
                /\ eng_output_action' = Tail(eng_output_action)
                /\ action' = "None"
                /\ (msg.ok /\ msg_action = "Select") =>
                      partitions' = Append(partitions, msg.partitions)
                /\ (msg.ok /\ msg_action = "Recalculate") =>
                      /\ Len(partitions') = Len(partitions)
                      /\ partitions # <<>>
                      /\ partitions'[Len(partitions')] = msg.partitions
                /\ ~msg.ok => UNCHANGED partitions
      ]_vars

\* C13: every request and response carries the tag Select or Recalculate, never
\* Wait, and process never panics in its Wait arm.
C13_WaitIsNeverSent ==
    /\ TagsInFlight \subseteq {"Select", "Recalculate"}
    /\ last_op # "process_panic_wait"

\* C13 witness: process applied a response while a second request, sent while the
\* pending action was Wait, is still on its way.
C13_Witness ==
    /\ last_op \in {"process_select", "process_recalculate"}
    /\ outstanding >= 1
    /\ TagsInFlight # {}

\* C14: select_partition called while the partitions stack is empty returns
\* success, leaves the three stacks and the pending action unchanged and sends
\* no request.
C14_SelectOnEmptyIsNoOp ==
    [][ (SelectStep /\ partitions = <<>>) =>
          /\ last_op' = "select_noop"
          /\ UNCHANGED <<search_stack, group_by_stack, partitions, action, eng_input,
                         eng_output, eng_output_action, outstanding, n_requests, panicked>>
      ]_vars

\* C14 witness: select_partition returned at once on an Engine that has sent its
\* first request and has no partitions yet.
C14_Witness ==
    /\ last_op = "select_noop"
    /\ partitions = <<>>
    /\ action = "Wait"


\* C15: once the worker has exited, a receive that finds no response reports an
\* error rather than "no response", and a request's send returns an error.
C15_WorkerExitIsReported ==
    [][ /\ (worker_gone /\ caller_pc = "idle" /\ output_channel = <<>>
              /\ link_last' # link_last) => link_last' = "receive_err"
        /\ (worker_gone /\ caller_pc = "request_send" /\ caller_pc' = "idle") =>
              link_last' = "request_err"
      ]_vars


IsPrefix(a, b) == Len(a) <= Len(b) /\ SubSeq(b, 1, Len(a)) = a

\* the requests answered so far: responses received, then responses waiting
Answered == recv_log \o [i \in 1..Len(output_channel) |-> RequestOf(output_channel[i])]

\* C16: the worker takes requests in the order they were sent and responses become
\* available in that order, each carrying the query and context of its request
\* unchanged (and the Response variant of its query).
C16_FifoOrder ==
    /\ IsPrefix(Answered, sent_log)
    /\ \A i \in 1..Len(output_channel) : output_channel[i].kind = output_channel[i].query
    /\ ~store_failed =>
          Answered \o (IF worker_pc = "exec" THEN <<worker_req>> ELSE <<>>) \o input_channel
             = sent_log

\* C16 witness: two requests with different contexts were answered and their
\* responses received one after the other.
C16_Witness ==
    /\ Len(recv_log) >= 2
    /\ recv_log[1] # recv_log[2]
    /\ recv_log[1].context # recv_log[2].context


\* C17: with the worker scheduled fairly and process() polled, every request the
\* Engine has sent is eventually applied by process(), after which no request is
\* outstanding and no action is pending.
C17_EveryRequestIsApplied ==
    (outstanding > 0) ~> (outstanding = 0 /\ action = "None")

\* C18: in every state in which a request sent by the Engine has not had its
\* response applied by process(), is_busy() returns true.
C18_BusyWhileOutstanding ==
    (~panicked /\ outstanding > 0) => is_busy


\* C19: group_by_stack is never empty, every request carries at least one
\* group-by field, and the worker never ends with "No Group By Available".
C19_GroupByNeverEmpty ==
    /\ group_by_stack # <<>>
    /\ \A i \in 1..Len(eng_input) : eng_input[i].fields # <<>>
    /\ eng_worker_pc = "exec" => eng_worker_req.fields # <<>>
    /\ eng_worker_pc # "exited_no_group_by"

\* the field the rows of one partitions level were grouped by agrees with `f`
GroupedBy(level, f) == \A i \in 1..Len(level.items) : level.items[i].field.kind = f

\* C20: in every state with no request outstanding, partitions and group_by_stack
\* have the same length and every partitions level i is the result of grouping by
\* the current group_by_stack[i].  Stated for Engines that hold at least one
\* partitions level: a new Engine has its first grouping staged and no level yet.
C20_PartitionsMatchGroupings ==
    (~panicked /\ outstanding = 0 /\ partitions # <<>>) =>
        /\ Len(partitions) = Len(group_by_stack)
        /\ \A i \in 1..Len(partitions) :
              i <= Len(group_by_stack) => GroupedBy(partitions[i], group_by_stack[i])


\* C21: process() never applies a Recalculate response to an empty partitions
\* stack, so partitions[len - 1] is never out of range.
C21_RecalculateFindsALevel == last_op # "process_panic_index"

\* C22: select_partition never runs with 5 or more entries on group_by_stack, so
\* default_group_by_stack is never called with an index above 4.
C22_DefaultGroupingInRange == last_op # "select_panic"

\* C23: after finitely many requests, with the worker scheduled fairly and
\* receive() polled, is_processing() eventually becomes false and stays false.
C23_EventuallyIdle == <>[](~is_processing)

====
